---------------------------- MODULE Spec2Model ----------------------------
(***************************************************************************)
(* Payment-to-invoice matching engine (app/services/matching_engine.py)    *)
(* and the batch loop that drives it (app/routers/postings.py).            *)
(*                                                                         *)
(* Representation.                                                         *)
(*  - A name is a sequence of one-character strings, so that lower(),      *)
(*    strip(), endswith(), slicing, "in" and SequenceMatcher act on        *)
(*    characters as they do in Python.                                     *)
(*  - A Decimal amount is an integer (minor units); Decimal arithmetic is  *)
(*    exact, so is integer arithmetic.                                     *)
(*  - A float score is an exact rational [num, den] in lowest terms with   *)
(*    den > 0.  den = 0 marks the exception raised by a division by zero.  *)
(*    Binary rounding of floats is modelled only where a value in reach    *)
(*    of the engine depends on it (RoundTrip below).                       *)
(*  - Fields the engine never reads (dates, description, matter_id,        *)
(*    status, remittance_id, notes) are left out of the records.           *)
(***************************************************************************)
EXTENDS Integers, Sequences, FiniteSets, TLC

(***************************************************************************)
(* Bounds of the model.                                                    *)
(***************************************************************************)
MaxTx == 2
MaxRem == 2
MaxInv == 2
MaxAmount == 11

(***************************************************************************)
(* Exact rationals standing for Python floats.                             *)
(***************************************************************************)
Abs(x) == IF x < 0 THEN -x ELSE x

RECURSIVE GCD(_, _)
GCD(a, b) == IF b = 0 THEN a ELSE GCD(b, a % b)

\* n/d in lowest terms, d > 0
Sign(x) == IF x < 0 THEN -1 ELSE 1
RatBy(n, d, g) == [num |-> n \div g, den |-> d \div g]
Rat(n, d) == RatBy(Sign(d) * n, Abs(d), GCD(Abs(n), Abs(d)))

DivisionFault == [num |-> 0, den |-> 0]
IsFault(r) == r.den = 0

RZero == [num |-> 0, den |-> 1]
ROne == [num |-> 1, den |-> 1]

RAdd(a, b) == Rat(a.num * b.den + b.num * a.den, a.den * b.den)
RSub(a, b) == Rat(a.num * b.den - b.num * a.den, a.den * b.den)
RMul(a, b) == Rat(a.num * b.num, a.den * b.den)
RGt(a, b) == a.num * b.den > b.num * a.den
RMax(a, b) == IF RGt(b, a) THEN b ELSE a
RMin(a, b) == IF RGt(a, b) THEN b ELSE a
\* int(x) for a float x: truncation toward zero
RInt(a) == IF a.num >= 0 THEN a.num \div a.den ELSE -((-a.num) \div a.den)
IMin(a, b) == IF a < b THEN a ELSE b

(***************************************************************************)
(* Strings as sequences of characters.                                     *)
(***************************************************************************)
UpperCase == <<"A","B","C","D","E","F","G","H","I","J","K","L","M",
               "N","O","P","Q","R","S","T","U","V","W","X","Y","Z">>
LowerCase == <<"a","b","c","d","e","f","g","h","i","j","k","l","m",
               "n","o","p","q","r","s","t","u","v","w","x","y","z">>
Whitespace == {" ", "\t"}

\* str.lower()
LowerChar(c) ==
    IF \E i \in DOMAIN UpperCase : UpperCase[i] = c
    THEN LowerCase[CHOOSE i \in DOMAIN UpperCase : UpperCase[i] = c]
    ELSE c
Lower(s) == [i \in 1..Len(s) |-> LowerChar(s[i])]

\* str.strip()
Least(S) == CHOOSE i \in S : \A j \in S : i <= j
Greatest(S) == CHOOSE i \in S : \A j \in S : i >= j
Between(s, keep) ==
    IF keep = {} THEN <<>> ELSE SubSeq(s, Least(keep), Greatest(keep))
Strip(s) == Between(s, {i \in 1..Len(s) : s[i] \notin Whitespace})

\* str.endswith(suffix)
EndsWith(s, suffix) ==
    /\ Len(suffix) <= Len(s)
    /\ SubSeq(s, Len(s) - Len(suffix) + 1, Len(s)) = suffix

\* "sub in s" for strings: sub occurs as a contiguous block (the empty string
\* occurs in every string)
Contains(s, sub) ==
    \E i \in 0..(Len(s) - Len(sub)) : SubSeq(s, i + 1, i + Len(sub)) = sub


(***************************************************************************)
(* calculate_name_similarity and its inner normalize.                      *)
(***************************************************************************)
\* the suffix list of normalize, in the order the loop visits it
Suffixes ==
    << <<" ","l","t","d">>,
       <<" ","l","t","d",".">>,
       <<" ","l","i","m","i","t","e","d">>,
       <<" ","i","n","c">>,
       <<" ","i","n","c",".">>,
       <<" ","c","o","r","p">>,
       <<" ","c","o","r","p",".">>,
       <<" ","l","l","c">>,
       <<" ","p","t","e">>,
       <<" ","p","t","e",".">>,
       <<" ","c","o">>,
       <<" ","c","o",".">>,
       <<" ","g","r","o","u","p">>,
       <<" ","h","o","l","d","i","n","g","s">> >>

\* name[:-len(suffix)].strip()
RemoveSuffix(name, suffix) == Strip(SubSeq(name, 1, Len(name) - Len(suffix)))

\* the for loop of normalize from position k of the list on: every suffix is
\* tested against the name as the earlier iterations left it
RECURSIVE StripSuffixesFrom(_, _)
\* the loop as it would be with a break after the first suffix removed
StripSuffixesFrom_break(name, k) ==
    IF k > Len(Suffixes) THEN name
    ELSE IF EndsWith(name, Suffixes[k]) THEN RemoveSuffix(name, Suffixes[k])
    ELSE StripSuffixesFrom(name, k + 1)

StripSuffixesFrom(name, k) ==
    IF k > Len(Suffixes) THEN name
    ELSE StripSuffixesFrom(IF EndsWith(name, Suffixes[k])
                           THEN RemoveSuffix(name, Suffixes[k])
                           ELSE name,
                           k + 1)

normalize(name) == StripSuffixesFrom(Strip(Lower(name)), 1)

\* length of the common run of a and b that starts at a[i], b[j] (0-based)
\* and stays inside a[:ahi], b[:bhi]
RECURSIVE CommonRun(_, _, _, _, _, _)
CommonRun(a, b, i, ahi, j, bhi) ==
    IF i < ahi /\ j < bhi /\ a[i + 1] = b[j + 1]
    THEN 1 + CommonRun(a, b, i + 1, ahi, j + 1, bhi)
    ELSE 0

\* the scan behind find_longest_match, for one position i of a: the positions
\* j of b in increasing order; a block replaces the best so far only when it is
\* strictly longer
RECURSIVE LongestInRow(_, _, _, _, _, _, _)
LongestInRow(a, b, i, ahi, j, bhi, best) ==
    IF j >= bhi THEN best
    ELSE LET k == CommonRun(a, b, i, ahi, j, bhi)
         IN  IF k > best.size
             THEN LongestInRow(a, b, i, ahi, j + 1, bhi,
                               [i |-> i, j |-> j, size |-> k])
             ELSE LongestInRow(a, b, i, ahi, j + 1, bhi, best)

\* the positions i of a in increasing order
RECURSIVE LongestFrom(_, _, _, _, _, _, _)
LongestFrom(a, b, i, ahi, blo, bhi, best) ==
    IF i >= ahi THEN best
    ELSE LongestFrom(a, b, i + 1, ahi, blo, bhi,
                     LongestInRow(a, b, i, ahi, blo, bhi, best))

\* difflib.SequenceMatcher.find_longest_match on a[alo:ahi], b[blo:bhi]
\* (0-based, half-open) without junk: the longest common block, of those the
\* one earliest in a, of those the one earliest in b
FindLongestMatch(a, b, alo, ahi, blo, bhi) ==
    LongestFrom(a, b, alo, ahi, blo, bhi, [i |-> alo, j |-> blo, size |-> 0])

\* sum of the sizes of get_matching_blocks(): the longest block m, then the
\* pieces to its left and to its right, recursively
RECURSIVE MatchingSize(_, _, _, _, _, _)
RECURSIVE MatchingSizeAround(_, _, _, _, _, _, _)
MatchingSizeAround(a, b, alo, ahi, blo, bhi, m) ==
    IF m.size = 0 THEN 0
    ELSE m.size
         + MatchingSize(a, b, alo, m.i, blo, m.j)
         + MatchingSize(a, b, m.i + m.size, ahi, m.j + m.size, bhi)

MatchingSize(a, b, alo, ahi, blo, bhi) ==
    IF alo >= ahi \/ blo >= bhi THEN 0
    ELSE MatchingSizeAround(a, b, alo, ahi, blo, bhi,
                            FindLongestMatch(a, b, alo, ahi, blo, bhi))

\* SequenceMatcher(None, a, b).ratio(): 2*M/T, and 1.0 when both are empty
SequenceRatio(a, b) ==
    IF Len(a) + Len(b) = 0 THEN ROne
    ELSE Rat(2 * MatchingSize(a, b, 0, Len(a), 0, Len(b)), Len(a) + Len(b))

\* the containment test "norm1 in norm2 or norm2 in norm1"
OneContainsOther(norm1, norm2) == Contains(norm2, norm1) \/ Contains(norm1, norm2)

ContainmentBoost == Rat(2, 10)

\* "if ...: similarity = min(1.0, similarity + 0.2)"
Boosted(similarity, contained) ==
    IF contained THEN RMin(ROne, RAdd(similarity, ContainmentBoost))
    ELSE similarity

\* the body of calculate_name_similarity below the two calls of normalize
NormalizedSimilarity(norm1, norm2) ==
    Boosted(SequenceRatio(norm1, norm2), OneContainsOther(norm1, norm2))

calculate_name_similarity(name1, name2) ==
    NormalizedSimilarity(normalize(name1), normalize(name2))

(***************************************************************************)
(* calculate_amount_similarity.                                            *)
(***************************************************************************)
\* Decimal / Decimal converted to float; a zero divisor raises
DecimalDivide(x, y) == IF y = 0 THEN DivisionFault ELSE Rat(x, y)

\* "similarity = max(0.0, 1.0 - (percentage_diff * 2))"
\* the same line with the factor 2 left out
SimilarityOfDifference_single(percentage_diff) ==
    IF IsFault(percentage_diff) THEN DivisionFault
    ELSE RMax(RZero, RSub(ROne, percentage_diff))

SimilarityOfDifference(percentage_diff) ==
    IF IsFault(percentage_diff) THEN DivisionFault
    ELSE RMax(RZero, RSub(ROne, RMul(percentage_diff, Rat(2, 1))))

\* the function without its "if amount2 == 0" guard
calculate_amount_similarity_unguarded(amount1, amount2) ==
    IF amount1 = amount2 THEN ROne
    ELSE SimilarityOfDifference(DecimalDivide(Abs(amount1 - amount2), amount2))

calculate_amount_similarity(amount1, amount2) ==
    IF amount1 = amount2 THEN ROne
    ELSE IF amount2 = 0 THEN RZero
    ELSE SimilarityOfDifference(DecimalDivide(Abs(amount1 - amount2), amount2))

(***************************************************************************)
(* Names used as inputs.                                                   *)
(***************************************************************************)
AcmeHoldings == <<"A","c","m","e"," ","H","o","l","d","i","n","g","s">>
AcmeCorp == <<"A","c","m","e"," ","C","o","r","p">>
Acme == <<"A","c","m","e">>
AcmeCoLtd == <<"A","C","M","E"," ","C","O"," ","L","T","D">>
AcmeLtdCo == <<"A","c","m","e"," ","L","t","d"," ","C","o">>
AcmaLtd == <<"A","c","m","a"," ","L","t","d",".">>
AcmeLegalPte == <<"A","c","m","e"," ","L","e","g","a","l"," ","P","t","e">>
ZedGroupCoLtd == <<" ","Z","e","d"," ","G","r","o","u","p"," ","C","o"," ","L","t","d"," ">>
ZedHoldingsLtd == <<"Z","e","d"," ","H","o","l","d","i","n","g","s"," ","L","t","d">>
Zed == <<"Z","e","d">>
Blank == <<" ">>
Empty == <<>>

Names == {AcmeHoldings, AcmeCorp, Acme, AcmeCoLtd, AcmeLtdCo, AcmaLtd,
          AcmeLegalPte, ZedGroupCoLtd, ZedHoldingsLtd, Zed, Blank, Empty}

\* the scores of all pairs of input names, computed once
NameSimilarityTable ==
    [a \in Names |-> [b \in Names |-> calculate_name_similarity(a, b)]]
name_similarity(name1, name2) == NameSimilarityTable[name1][name2]

(***************************************************************************)
(* The matchers.  A transaction is [reference_no, payer_name, amount,      *)
(* currency], a remittance [payer_name, invoice_reference,                 *)
(* payment_amount], an invoice [invoice_id, client_name, invoice_amount,   *)
(* currency].  A matcher returns [kind |-> "none"] for None,               *)
(* [kind |-> "raise"] when an exception escapes it, and otherwise a record *)
(* of kind "match" whose invoice and remittance are positions in the input *)
(* lists (the identity of the returned objects).                           *)
(***************************************************************************)
NoMatch == [kind |-> "none"]
Raised == [kind |-> "raise"]

RemittanceNameThreshold == Rat(6, 10)
RemittanceAmountThreshold == Rat(8, 10)
ExactAmountThreshold == Rat(95, 100)
FuzzyMinimumScore == Rat(7, 10)
NameWeight == Rat(4, 10)
AmountWeight == Rat(6, 10)
FuzzyNameThreshold == Rat(8, 10)
FuzzyNameAmountThreshold == Rat(9, 10)
FuzzyAmountThreshold == Rat(85, 100)

\* the test of the remittance loop on its two scores: "ok", "no", or "raise"
ClearsThresholds(name_sim, amount_sim) ==
    IF IsFault(amount_sim) THEN "raise"
    ELSE IF RGt(name_sim, RemittanceNameThreshold)
            /\ RGt(amount_sim, RemittanceAmountThreshold)
         THEN "ok" ELSE "no"

RemittanceClears(transaction, remittance) ==
    ClearsThresholds(
        name_similarity(transaction.payer_name, remittance.payer_name),
        calculate_amount_similarity(transaction.amount, remittance.payment_amount))

\* the remittance loop from position k on: the position it breaks at, 0 when
\* it runs off the end, -1 when a score raises
RECURSIVE FindMatchingRemittance(_, _, _)
RECURSIVE RemittanceLoopBody(_, _, _, _)
\* the loop body without its break: the last remittance that clears wins
RemittanceLoopBody_noBreak(transaction, remittances, k, clears) ==
    IF clears = "raise" THEN -1
    ELSE IF clears = "ok"
            /\ FindMatchingRemittance(transaction, remittances, k + 1) = 0
         THEN k
         ELSE FindMatchingRemittance(transaction, remittances, k + 1)

RemittanceLoopBody(transaction, remittances, k, clears) ==
    IF clears = "raise" THEN -1
    ELSE IF clears = "ok" THEN k
    ELSE FindMatchingRemittance(transaction, remittances, k + 1)

FindMatchingRemittance(transaction, remittances, k) ==
    IF k > Len(remittances) THEN 0
    ELSE RemittanceLoopBody(transaction, remittances, k,
                            RemittanceClears(transaction, remittances[k]))

\* the invoice loop from position k on: the first invoice with that id, or 0
RECURSIVE FindInvoiceById(_, _, _)
\* the invoice loop without its break: the last invoice with that id wins
FindInvoiceById_last(invoices, invoice_ref, k) ==
    IF k > Len(invoices) THEN 0
    ELSE IF FindInvoiceById(invoices, invoice_ref, k + 1) # 0
         THEN FindInvoiceById(invoices, invoice_ref, k + 1)
         ELSE IF invoices[k].invoice_id = invoice_ref THEN k ELSE 0

FindInvoiceById(invoices, invoice_ref, k) ==
    IF k > Len(invoices) THEN 0
    ELSE IF invoices[k].invoice_id = invoice_ref THEN k
    ELSE FindInvoiceById(invoices, invoice_ref, k + 1)

\* the points with the two factors exchanged
ReferencePoints_swapped(name_sim, amount_sim) ==
    RInt(RMul(amount_sim, Rat(5, 1))) + RInt(RMul(name_sim, Rat(10, 1)))

\* "int(amount_sim * 10) + int(name_sim * 5)"
ReferencePoints(name_sim, amount_sim) ==
    RInt(RMul(amount_sim, Rat(10, 1))) + RInt(RMul(name_sim, Rat(5, 1)))

\* the classification without the two caps min(99, ...) and min(98, ...)
ClassifyScores_uncapped(name_sim, amount_sim) ==
    IF IsFault(amount_sim) THEN Raised
    ELSE IF RGt(amount_sim, ExactAmountThreshold)
         THEN [kind |-> "match", match_type |-> "Exact",
               confidence |->
                   Rat(85 + ReferencePoints(name_sim, amount_sim), 100)]
         ELSE [kind |-> "match", match_type |-> "Reference",
               confidence |->
                   Rat(80 + ReferencePoints(name_sim, amount_sim), 100)]

\* match type and confidence of a reference match, from its two scores
ClassifyScores(name_sim, amount_sim) ==
    IF IsFault(amount_sim) THEN Raised
    ELSE IF RGt(amount_sim, ExactAmountThreshold)
         THEN [kind |-> "match", match_type |-> "Exact",
               confidence |->
                   Rat(IMin(99, 85 + ReferencePoints(name_sim, amount_sim)), 100)]
         ELSE [kind |-> "match", match_type |-> "Reference",
               confidence |->
                   Rat(IMin(98, 80 + ReferencePoints(name_sim, amount_sim)), 100)]

ClassifyReference(transaction, invoice) ==
    ClassifyScores(
        name_similarity(transaction.payer_name, invoice.client_name),
        calculate_amount_similarity(transaction.amount, invoice.invoice_amount))

\* the return statement, given invoice position i, remittance position r and
\* the classification c
ReferenceResult(i, r, c) ==
    IF c.kind = "raise" THEN Raised
    ELSE [kind |-> "match", invoice |-> i, remittance |-> r,
          match_type |-> c.match_type, confidence |-> c.confidence]

\* the part below the invoice loop, which ended at position i (0: not found)
WithInvoice(transaction, invoices, r, i) ==
    IF i = 0 THEN NoMatch
    ELSE ReferenceResult(i, r, ClassifyReference(transaction, invoices[i]))

\* the part below the remittance loop, which ended at position r
WithRemittance(transaction, remittances, invoices, r) ==
    IF r = -1 THEN Raised
    ELSE IF r = 0 THEN NoMatch
    ELSE WithInvoice(transaction, invoices, r,
                     FindInvoiceById(invoices, remittances[r].invoice_reference, 1))

match_by_invoice_reference(transaction, remittances, invoices) ==
    WithRemittance(transaction, remittances, invoices,
                   FindMatchingRemittance(transaction, remittances, 1))

\* the three best_* variables of fuzzy_match before the loop
NoBest == [match |-> 0, score |-> RZero, match_type |-> "None", raised |-> FALSE]

FuzzyType(name_sim, amount_sim) ==
    IF RGt(name_sim, FuzzyNameThreshold) /\ RGt(amount_sim, FuzzyNameAmountThreshold)
    THEN "Fuzzy (name)"
    ELSE IF RGt(amount_sim, FuzzyAmountThreshold) THEN "Fuzzy (amount)"
    ELSE "Contextual"

CombinedScore(name_sim, amount_sim) ==
    RAdd(RMul(name_sim, NameWeight), RMul(amount_sim, AmountWeight))

\* the test without its minimum score
Improves_noMinimum(combined_score, best_score) == RGt(combined_score, best_score)

\* the test with >= in place of the first >: the last of two equal scores wins
Improves_orEqual(combined_score, best_score) ==
    ~RGt(best_score, combined_score) /\ RGt(combined_score, FuzzyMinimumScore)

\* whether a candidate replaces the best so far
Improves(combined_score, best_score) ==
    RGt(combined_score, best_score) /\ RGt(combined_score, FuzzyMinimumScore)

\* the update that would keep the match type of the first best candidate
Consider_staleType(k, combined_score, match_type, best) ==
    IF Improves(combined_score, best.score)
    THEN [match |-> k, score |-> combined_score,
          match_type |-> IF best.match = 0 THEN match_type ELSE best.match_type,
          raised |-> FALSE]
    ELSE best

\* "if combined_score > best_score and combined_score > 0.7: ..."
Consider(k, combined_score, match_type, best) ==
    IF Improves(combined_score, best.score)
    THEN [match |-> k, score |-> combined_score, match_type |-> match_type,
          raised |-> FALSE]
    ELSE best

\* the loop body of fuzzy_match below the two skips, given the two scores
ScoreCandidate(k, name_sim, amount_sim, best) ==
    IF IsFault(amount_sim) THEN [best EXCEPT !.raised = TRUE]
    ELSE Consider(k, CombinedScore(name_sim, amount_sim),
                  FuzzyType(name_sim, amount_sim), best)

\* the iteration without the currency check
FuzzyStep_anyCurrency(transaction, invoices, exclude_invoice_ids, k, best) ==
    IF invoices[k].invoice_id \in exclude_invoice_ids THEN best
    ELSE ScoreCandidate(
             k,
             name_similarity(transaction.payer_name, invoices[k].client_name),
             calculate_amount_similarity(transaction.amount,
                                         invoices[k].invoice_amount),
             best)

\* one iteration of the loop of fuzzy_match on invoices[k]
FuzzyStep(transaction, invoices, exclude_invoice_ids, k, best) ==
    IF invoices[k].invoice_id \in exclude_invoice_ids THEN best
    ELSE IF transaction.currency # invoices[k].currency THEN best
    ELSE ScoreCandidate(
             k,
             name_similarity(transaction.payer_name, invoices[k].client_name),
             calculate_amount_similarity(transaction.amount,
                                         invoices[k].invoice_amount),
             best)

RECURSIVE FuzzyScan(_, _, _, _, _)
FuzzyScan(transaction, invoices, exclude_invoice_ids, k, best) ==
    IF k > Len(invoices) THEN best
    ELSE IF best.raised THEN best
    ELSE FuzzyScan(transaction, invoices, exclude_invoice_ids, k + 1,
                   FuzzyStep(transaction, invoices, exclude_invoice_ids, k, best))

\* the part of fuzzy_match below the loop
FuzzyResult(best) ==
    IF best.raised THEN Raised
    ELSE IF best.match # 0
         THEN [kind |-> "match", invoice |-> best.match,
               match_type |-> best.match_type,
               confidence |->
                   Rat(IMin(98, RInt(RMul(best.score, Rat(100, 1)))), 100)]
         ELSE NoMatch

fuzzy_match(transaction, invoices, exclude_invoice_ids) ==
    FuzzyResult(FuzzyScan(transaction, invoices, exclude_invoice_ids, 1, NoBest))

(***************************************************************************)
(* match_payment_to_invoice.                                               *)
(***************************************************************************)
\* int(confidence * 100) for confidence = c / 100.0: the float product falls
\* just below c for c = 29, 57, 58 (c <= 99 always holds here)
RoundTrip(c) == IF c \in {29, 57, 58} THEN c - 1 ELSE c
PercentOf(confidence) == RoundTrip(RInt(RMul(confidence, Rat(100, 1))))

\* the posting with the difference taken the other way round
BuildPosting_reversed(transaction, invoice, match_type, confidence) ==
    [payment_ref |-> transaction.reference_no,
     payer_name |-> transaction.payer_name,
     matched_invoice |-> invoice.invoice_id,
     match_type |-> match_type,
     confidence |-> PercentOf(confidence),
     posting_status |-> "Auto-posted",
     bank_amount |-> transaction.amount,
     invoice_amount |-> invoice.invoice_amount,
     amount_difference |-> invoice.invoice_amount - transaction.amount]

\* MatchedPosting(...) as both branches of the orchestrator build it
BuildPosting(transaction, invoice, match_type, confidence) ==
    [payment_ref |-> transaction.reference_no,
     payer_name |-> transaction.payer_name,
     matched_invoice |-> invoice.invoice_id,
     match_type |-> match_type,
     confidence |-> PercentOf(confidence),
     posting_status |-> "Auto-posted",
     bank_amount |-> transaction.amount,
     invoice_amount |-> invoice.invoice_amount,
     amount_difference |-> transaction.amount - invoice.invoice_amount]

\* an orchestrator that would exclude the invoices already posted in the batch
FuzzyExclusions_posted(posted) == posted

\* the exclusion set the orchestrator hands to fuzzy_match: it passes none, so
\* the default (the empty set) applies whatever was posted before
FuzzyExclusions(posted) == {}

\* "if result:" of the orchestrator, and what is left when it fails
Found(result) == result.kind = "match"

\* an orchestrator that would go on to the next step whatever step 1 found
NotFound_always(result) == TRUE

NotFound(result) == result.kind = "none"

\* what a call returns once a strategy has returned result: [kind |-> "none"],
\* [kind |-> "raise"], or [kind |-> "posting", posting, invoice, path]; invoice
\* (the position of the invoice used) and path (the strategy that found it)
\* are not part of the Python value and are kept for the properties only
Returned(transaction, invoices, result, path) ==
    IF Found(result)
    THEN [kind |-> "posting", invoice |-> result.invoice, path |-> path,
          posting |-> BuildPosting(transaction, invoices[result.invoice],
                                   result.match_type, result.confidence)]
    ELSE result

\* the orchestrator below step 1, which returned result
AfterReference(transaction, invoices, result) ==
    IF NotFound(result)
    THEN Returned(transaction, invoices,
                  fuzzy_match(transaction, invoices, FuzzyExclusions({})), "fuzzy")
    ELSE Returned(transaction, invoices, result, "reference")

match_payment_to_invoice(transaction, remittances, invoices) ==
    AfterReference(transaction, invoices,
                   match_by_invoice_reference(transaction, remittances, invoices))

(***************************************************************************)
(* Input records.                                                          *)
(***************************************************************************)
TxAcme == [reference_no |-> "PAY-1", payer_name |-> AcmeHoldings,
           amount |-> 1000, currency |-> "USD"]
TxLegal == [reference_no |-> "PAY-2", payer_name |-> AcmeLegalPte,
            amount |-> 950, currency |-> "USD"]
TxZed == [reference_no |-> "PAY-3", payer_name |-> ZedGroupCoLtd,
          amount |-> 500, currency |-> "EUR"]
TxPool == {TxAcme, TxLegal, TxZed}

RemAcme == [payer_name |-> Acme, invoice_reference |-> "INV-100",
            payment_amount |-> 1000]
RemLost == [payer_name |-> AcmeCorp, invoice_reference |-> "INV-404",
            payment_amount |-> 1040]
RemZed == [payer_name |-> Zed, invoice_reference |-> "INV-200",
           payment_amount |-> 500]
RemPool == {RemAcme, RemLost, RemZed}

InvAcme == [invoice_id |-> "INV-100", client_name |-> AcmeCorp,
            invoice_amount |-> 1000, currency |-> "USD"]
InvAcma == [invoice_id |-> "INV-100", client_name |-> AcmaLtd,
            invoice_amount |-> 900, currency |-> "EUR"]
InvZed == [invoice_id |-> "INV-200", client_name |-> ZedHoldingsLtd,
           invoice_amount |-> 500, currency |-> "USD"]
InvLegal == [invoice_id |-> "INV-300", client_name |-> AcmeLegalPte,
             invoice_amount |-> 1100, currency |-> "USD"]
InvPool == {InvAcme, InvAcma, InvZed, InvLegal}

\* the lists of at most n distinct records of S, in every order
ListsOf(S, n) ==
    UNION {{l \in [1..k -> S] : \A i, j \in 1..k : l[i] = l[j] => i = j} : k \in 0..n}

(***************************************************************************)
(* State.                                                                  *)
(***************************************************************************)
VARIABLES
    bank_transactions,  \* the loaded lists of process_payments
    remittances,
    invoices,
    loaded,             \* history: the remittance and invoice lists as loaded
    claimed,            \* positions of the transactions handed to a call so far
    worker,             \* per execution unit: position in match_payment_to_invoice
    calls,              \* history: per transaction, the strategies invoked, in order
    returned,           \* per transaction: what its call returned ("pending" before)
    matched_postings,
    unmatched_payments,
    response,           \* pending, the MatchingResponse counts, or the 500 error
    call                \* the last direct call of a function (unit level)

vars == <<bank_transactions, remittances, invoices, loaded, claimed, worker, calls,
          returned, matched_postings, unmatched_payments, response, call>>

batch_vars == <<bank_transactions, remittances, invoices, loaded, claimed, worker,
                calls, returned, matched_postings, unmatched_payments, response>>

Main == "main"
Workers == {"main", "second"}

Idle == [pc |-> "idle", tx |-> 0, result |-> NoMatch]
Pending == [kind |-> "pending"]
NoCall == [fn |-> "none"]
NoResponse == [kind |-> "pending"]

InitBatch ==
    /\ bank_transactions \in ListsOf(TxPool, MaxTx)
    /\ remittances \in ListsOf(RemPool, MaxRem)
    /\ invoices \in ListsOf(InvPool, MaxInv)
    /\ loaded = [remittances |-> remittances, invoices |-> invoices]
    /\ claimed = {}
    /\ worker = [w \in Workers |-> Idle]
    /\ calls = [i \in DOMAIN bank_transactions |-> <<>>]
    /\ returned = [i \in DOMAIN bank_transactions |-> Pending]
    /\ matched_postings = <<>>
    /\ unmatched_payments = <<>>
    /\ response = NoResponse

Init == InitBatch /\ call = NoCall

(***************************************************************************)
(* process_payments: the batch loop, one step per position of the call of  *)
(* match_payment_to_invoice it makes.                                      *)
(***************************************************************************)
\* "for transaction in bank_transactions: match_payment_to_invoice(...)":
\* unit w enters the call for transaction i
StartMatch(w, i) ==
    /\ response = NoResponse
    /\ worker[w].pc = "idle"
    /\ i \in DOMAIN bank_transactions
    /\ i \notin claimed
    /\ claimed' = claimed \cup {i}
    /\ worker' = [worker EXCEPT ![w] = [pc |-> "reference", tx |-> i,
                                        result |-> NoMatch]]
    /\ UNCHANGED <<bank_transactions, remittances, invoices, loaded, calls, returned,
                   matched_postings, unmatched_payments, response, call>>

\* an exception escaping the call is caught by process_payments and answered
\* with status 500; nothing runs after it
ErrorResponse == [kind |-> "error", status |-> 500]

\* a strategy called for transaction i returns result to unit w
StrategyReturns(w, i, strategy, next_pc, result) ==
    /\ calls' = [calls EXCEPT ![i] = Append(@, strategy)]
    /\ worker' = [worker EXCEPT ![w].pc = next_pc, ![w].result = result]
    /\ response' = IF result.kind = "raise" THEN ErrorResponse ELSE response

\* Step 1: result = match_by_invoice_reference(transaction, remittances, invoices)
MatchByInvoiceReference(w) ==
    /\ response = NoResponse
    /\ worker[w].pc = "reference"
    /\ StrategyReturns(w, worker[w].tx, "reference", "after_reference",
                       match_by_invoice_reference(bank_transactions[worker[w].tx],
                                                  remittances, invoices))
    /\ UNCHANGED <<bank_transactions, remittances, invoices, loaded, claimed, returned,
                   matched_postings, unmatched_payments, call>>

\* the call for transaction i returns the posting record r to the loop, which
\* appends it
PostingReturns(i, r) ==
    /\ returned' = [returned EXCEPT ![i] = r]
    /\ matched_postings' = Append(matched_postings, r.posting)

\* "if result:" after step 1: the posting is built, returned and appended
ReturnReferencePosting(w) ==
    /\ response = NoResponse
    /\ worker[w].pc = "after_reference"
    /\ Found(worker[w].result)
    /\ PostingReturns(worker[w].tx,
                      Returned(bank_transactions[worker[w].tx], invoices,
                               worker[w].result, "reference"))
    /\ worker' = [worker EXCEPT ![w] = Idle]
    /\ UNCHANGED <<bank_transactions, remittances, invoices, loaded, claimed, calls,
                   unmatched_payments, response, call>>

\* the invoice ids of the postings appended so far
Posted == {matched_postings[n].matched_invoice : n \in DOMAIN matched_postings}

\* Step 2: result = fuzzy_match(transaction, invoices)
FuzzyMatch(w) ==
    /\ response = NoResponse
    /\ worker[w].pc = "after_reference"
    /\ NotFound(worker[w].result)
    /\ StrategyReturns(w, worker[w].tx, "fuzzy", "after_fuzzy",
                       fuzzy_match(bank_transactions[worker[w].tx], invoices,
                                   FuzzyExclusions(Posted)))
    /\ UNCHANGED <<bank_transactions, remittances, invoices, loaded, claimed, returned,
                   matched_postings, unmatched_payments, call>>

\* "if result:" after step 2
ReturnFuzzyPosting(w) ==
    /\ response = NoResponse
    /\ worker[w].pc = "after_fuzzy"
    /\ Found(worker[w].result)
    /\ PostingReturns(worker[w].tx,
                      Returned(bank_transactions[worker[w].tx], invoices,
                               worker[w].result, "fuzzy"))
    /\ worker' = [worker EXCEPT ![w] = Idle]
    /\ UNCHANGED <<bank_transactions, remittances, invoices, loaded, claimed, calls,
                   unmatched_payments, response, call>>

\* the dict the loop appends for an unmatched transaction (the date is left out)
UnmatchedPayment(transaction) ==
    [payment_ref |-> transaction.reference_no,
     payer_name |-> transaction.payer_name,
     amount |-> transaction.amount,
     currency |-> transaction.currency]

\* "return None", and the else branch of the loop body
ReturnNone(w) ==
    /\ response = NoResponse
    /\ worker[w].pc = "after_fuzzy"
    /\ NotFound(worker[w].result)
    /\ returned' = [returned EXCEPT ![worker[w].tx] = NoMatch]
    /\ unmatched_payments' =
           Append(unmatched_payments,
                  UnmatchedPayment(bank_transactions[worker[w].tx]))
    /\ worker' = [worker EXCEPT ![w] = Idle]
    /\ UNCHANGED <<bank_transactions, remittances, invoices, loaded, claimed, calls,
                   matched_postings, response, call>>

\* "if matched_postings: output_file_path = save_matched_postings_csv(...)":
\* a file is written only for a non-empty list
SavedTo(postings) == IF postings # <<>> THEN "csv" ELSE "None"

\* after the loop: the save, and the counts of the MatchingResponse
Respond ==
    /\ response = NoResponse
    /\ claimed = DOMAIN bank_transactions
    /\ \A w \in Workers : worker[w].pc = "idle"
    /\ response' = [kind |-> "ok", status |-> 200,
                    total_payments |-> Len(bank_transactions),
                    matched_count |-> Len(matched_postings),
                    unmatched_count |-> Len(unmatched_payments),
                    output_file_path |-> SavedTo(matched_postings)]
    /\ UNCHANGED <<bank_transactions, remittances, invoices, loaded, claimed, worker,
                   calls, returned, matched_postings, unmatched_payments, call>>

\* a loop that would take the transactions from the end of the list
NextInOrder_reversed == Len(bank_transactions) - Cardinality(claimed)

\* the loop of process_payments takes the transactions in list order
NextInOrder == Cardinality(claimed) + 1

Next ==
    \/ StartMatch(Main, NextInOrder)
    \/ MatchByInvoiceReference(Main)
    \/ ReturnReferencePosting(Main)
    \/ FuzzyMatch(Main)
    \/ ReturnFuzzyPosting(Main)
    \/ ReturnNone(Main)
    \/ Respond

Spec == Init /\ [][Next]_vars

(***************************************************************************)
(* The same calls made by independent execution units: each unit takes any *)
(* transaction not yet taken, and the units' steps interleave.             *)
(***************************************************************************)
ParNext ==
    \/ \E w \in Workers : \E i \in DOMAIN bank_transactions : StartMatch(w, i)
    \/ \E w \in Workers : MatchByInvoiceReference(w)
    \/ \E w \in Workers : ReturnReferencePosting(w)
    \/ \E w \in Workers : FuzzyMatch(w)
    \/ \E w \in Workers : ReturnFuzzyPosting(w)
    \/ \E w \in Workers : ReturnNone(w)
    \/ Respond

\* the batches of the parallel runs: two transactions can claim one invoice
ParRemPool == {RemAcme, RemLost}
ParInvPool == {InvAcme, InvAcma, InvLegal}

ParInit ==
    /\ Init
    /\ \A i \in DOMAIN remittances : remittances[i] \in ParRemPool
    /\ \A i \in DOMAIN invoices : invoices[i] \in ParInvPool

SpecPar == ParInit /\ [][ParNext]_vars

(***************************************************************************)
(* The batch loop on batches in which one invoice is claimed twice: a      *)
(* remittance that only the second payer clears cites the invoice that the *)
(* first payer resembles.                                                  *)
(***************************************************************************)
RemLegalPart == [payer_name |-> AcmeLegalPte, invoice_reference |-> "INV-100",
                 payment_amount |-> 880]
SharedTxPool == {TxAcme, TxLegal}
SharedRemPool == {RemLegalPart, RemLost}
SharedInvPool == {InvAcme, InvLegal}

SharedInit ==
    /\ bank_transactions \in ListsOf(SharedTxPool, MaxTx)
    /\ remittances \in ListsOf(SharedRemPool, MaxRem)
    /\ invoices \in ListsOf(SharedInvPool, MaxInv)
    /\ loaded = [remittances |-> remittances, invoices |-> invoices]
    /\ claimed = {}
    /\ worker = [w \in Workers |-> Idle]
    /\ calls = [i \in DOMAIN bank_transactions |-> <<>>]
    /\ returned = [i \in DOMAIN bank_transactions |-> Pending]
    /\ matched_postings = <<>>
    /\ unmatched_payments = <<>>
    /\ response = NoResponse
    /\ call = NoCall

SpecShared == SharedInit /\ [][Next]_vars

(***************************************************************************)
(* Direct calls of the functions of the engine, on inputs of any sign: one  *)
(* call per behaviour, on any of the inputs.                               *)
(***************************************************************************)
Amounts == (-MaxAmount)..MaxAmount

TxRefund == [reference_no |-> "PAY-9", payer_name |-> Zed,
             amount |-> -500, currency |-> "EUR"]
RemZero == [payer_name |-> Zed, invoice_reference |-> "INV-200",
            payment_amount |-> 0]
RemLegal == [payer_name |-> AcmeLegalPte, invoice_reference |-> "INV-300",
             payment_amount |-> 950]
InvZero == [invoice_id |-> "INV-200", client_name |-> Zed,
            invoice_amount |-> 0, currency |-> "EUR"]
InvCredit == [invoice_id |-> "INV-900", client_name |-> Zed,
              invoice_amount |-> -400, currency |-> "EUR"]

UnitTxPool == TxPool \cup {TxRefund}
UnitRemPool == RemPool \cup {RemZero, RemLegal}
UnitInvPool == InvPool \cup {InvZero, InvCredit}
InvoiceIds == {inv.invoice_id : inv \in UnitInvPool}

\* an invoice that scores exactly as InvAcme does against TxAcme, for the
\* calls of fuzzy_match
InvAcmeTwin == [invoice_id |-> "INV-100", client_name |-> Acme,
                invoice_amount |-> 1000, currency |-> "USD"]
FuzzyInvPool == UnitInvPool \cup {InvAcmeTwin}

\* an invoice that has the id RemZed cites and nothing in common with TxZed,
\* for the calls of match_payment_to_invoice
InvStranger == [invoice_id |-> "INV-200", client_name |-> AcmaLtd,
                invoice_amount |-> 1100, currency |-> "USD"]
OrchestratorInvPool == UnitInvPool \cup {InvStranger}

InitUnit ==
    /\ bank_transactions = <<>>
    /\ remittances = <<>>
    /\ invoices = <<>>
    /\ loaded = [remittances |-> <<>>, invoices |-> <<>>]
    /\ claimed = {}
    /\ worker = [w \in Workers |-> Idle]
    /\ calls = <<>>
    /\ returned = <<>>
    /\ matched_postings = <<>>
    /\ unmatched_payments = <<>>
    /\ response = NoResponse
    /\ call = NoCall

CallNormalize ==
    /\ call = NoCall
    /\ \E name \in Names :
           call' = [fn |-> "normalize", name |-> name, result |-> normalize(name)]
    /\ UNCHANGED batch_vars

CallNameSimilarity ==
    /\ call = NoCall
    /\ \E name1, name2 \in Names :
           call' = [fn |-> "calculate_name_similarity",
                    name1 |-> name1, name2 |-> name2,
                    result |-> name_similarity(name1, name2)]
    /\ UNCHANGED batch_vars

CallAmountSimilarity ==
    /\ call = NoCall
    /\ \E amount1, amount2 \in Amounts :
           call' = [fn |-> "calculate_amount_similarity",
                    amount1 |-> amount1, amount2 |-> amount2,
                    result |-> calculate_amount_similarity(amount1, amount2)]
    /\ UNCHANGED batch_vars

CallMatchByInvoiceReference ==
    /\ call = NoCall
    /\ \E transaction \in UnitTxPool :
       \E rems \in ListsOf(UnitRemPool, MaxRem) :
       \E invs \in ListsOf(UnitInvPool, MaxInv) :
           call' = [fn |-> "match_by_invoice_reference",
                    transaction |-> transaction, remittances |-> rems,
                    invoices |-> invs,
                    result |-> match_by_invoice_reference(transaction, rems, invs)]
    /\ UNCHANGED batch_vars

CallFuzzyMatch ==
    /\ call = NoCall
    /\ \E transaction \in UnitTxPool :
       \E invs \in ListsOf(FuzzyInvPool, MaxInv) :
       \E exclude_invoice_ids \in SUBSET InvoiceIds :
           call' = [fn |-> "fuzzy_match",
                    transaction |-> transaction, invoices |-> invs,
                    exclude_invoice_ids |-> exclude_invoice_ids,
                    result |-> fuzzy_match(transaction, invs, exclude_invoice_ids)]
    /\ UNCHANGED batch_vars

CallMatchPaymentToInvoice ==
    /\ call = NoCall
    /\ \E transaction \in UnitTxPool :
       \E rems \in ListsOf(UnitRemPool, MaxRem) :
       \E invs \in ListsOf(OrchestratorInvPool, MaxInv) :
           call' = [fn |-> "match_payment_to_invoice",
                    transaction |-> transaction, remittances |-> rems,
                    invoices |-> invs,
                    result |-> match_payment_to_invoice(transaction, rems, invs)]
    /\ UNCHANGED batch_vars

UnitNext ==
    \/ CallNormalize
    \/ CallNameSimilarity
    \/ CallAmountSimilarity
    \/ CallMatchByInvoiceReference
    \/ CallFuzzyMatch
    \/ CallMatchPaymentToInvoice

SpecUnit == InitUnit /\ [][UnitNext]_vars

(***************************************************************************)
(* Properties of the orchestrator and of the batch loop.                   *)
(***************************************************************************)
\* what the two strategies return for transaction i of the batch
ReferenceOf(i) ==
    match_by_invoice_reference(bank_transactions[i], remittances, invoices)
FuzzyOf(i) == fuzzy_match(bank_transactions[i], invoices, {})

\* the call for transaction i returned a posting built from result on path
BuiltFrom(i, result, path) ==
    /\ returned[i].kind = "posting"
    /\ returned[i].path = path
    /\ returned[i].invoice = result.invoice
    /\ returned[i].posting.match_type = result.match_type

\* C1: match_payment_to_invoice calls match_by_invoice_reference first; when
\* that finds a match the posting is built from it and fuzzy_match is not
\* called; fuzzy_match is called, on the whole invoice list with no
\* exclusions, only when the reference strategy found nothing; and the call
\* returns None exactly when both strategies found nothing.
C1_SequentialEarlyExit ==
    /\ \A i \in DOMAIN bank_transactions :
        /\ calls[i] \in {<<>>, <<"reference">>, <<"reference", "fuzzy">>}
        /\ calls[i] = <<"reference", "fuzzy">> => ReferenceOf(i) = NoMatch
        /\ (returned[i] # Pending /\ ReferenceOf(i).kind = "match") =>
               /\ calls[i] = <<"reference">>
               /\ BuiltFrom(i, ReferenceOf(i), "reference")
        /\ (returned[i] # Pending /\ ReferenceOf(i) = NoMatch) =>
               /\ calls[i] = <<"reference", "fuzzy">>
               /\ FuzzyOf(i).kind = "match" => BuiltFrom(i, FuzzyOf(i), "fuzzy")
        /\ returned[i] = NoMatch <=>
               /\ returned[i] # Pending
               /\ ReferenceOf(i) = NoMatch
               /\ FuzzyOf(i) = NoMatch
    /\ \A w \in Workers :
        /\ worker[w].pc = "after_reference" =>
               /\ worker[w].result = ReferenceOf(worker[w].tx)
               /\ calls[worker[w].tx] = <<"reference">>
        /\ worker[w].pc = "after_fuzzy" =>
               /\ worker[w].result = FuzzyOf(worker[w].tx)
               /\ calls[worker[w].tx] = <<"reference", "fuzzy">>

\* a remittance cleared the thresholds, its invoice was missing, and the
\* fuzzy strategy then found the invoice the posting is built from
C1_FuzzyAfterMissingInvoice ==
    \E i \in DOMAIN bank_transactions :
        /\ FindMatchingRemittance(bank_transactions[i], remittances, 1) > 0
        /\ ReferenceOf(i) = NoMatch
        /\ calls[i] = <<"reference", "fuzzy">>
        /\ returned[i].kind = "posting"
        /\ returned[i].path = "fuzzy"

\* the positions of the transactions whose call returned a posting
WithPosting == {i \in DOMAIN bank_transactions : returned[i].kind = "posting"}

\* the fields of posting p, built for transaction tx from invoice inv
FieldsFrom(p, tx, inv) ==
    /\ p.matched_invoice = inv.invoice_id
    /\ p.payment_ref = tx.reference_no
    /\ p.bank_amount = tx.amount
    /\ p.invoice_amount = inv.invoice_amount
    /\ p.amount_difference = tx.amount - inv.invoice_amount
    /\ p.posting_status = "Auto-posted"

\* C9: every posting returned by match_payment_to_invoice is built from an
\* invoice of the input list: its matched_invoice, payment_ref, bank_amount,
\* invoice_amount and signed amount_difference come from that invoice and the
\* transaction, its status is "Auto-posted", its match_type is "Exact" or
\* "Reference" on the reference path and "Fuzzy (name)", "Fuzzy (amount)" or
\* "Contextual" on the fuzzy path; and no posting exists for a transaction
\* for which no invoice was found.
C9_PostingBuiltFromFoundInvoice ==
    /\ \A i \in WithPosting :
        /\ returned[i].invoice \in DOMAIN invoices
        /\ FieldsFrom(returned[i].posting, bank_transactions[i],
                      invoices[returned[i].invoice])
        /\ returned[i].path \in {"reference", "fuzzy"}
        /\ returned[i].path = "reference" =>
               returned[i].posting.match_type \in {"Exact", "Reference"}
        /\ returned[i].path = "fuzzy" =>
               returned[i].posting.match_type
                   \in {"Fuzzy (name)", "Fuzzy (amount)", "Contextual"}
        /\ ReferenceOf(i).kind = "match" \/ FuzzyOf(i).kind = "match"
    /\ Len(matched_postings) = Cardinality(WithPosting)
    /\ {matched_postings[n] : n \in DOMAIN matched_postings}
           = {returned[i].posting : i \in WithPosting}
    /\ \A i \in DOMAIN bank_transactions :
           returned[i] = NoMatch =>
               \A n \in DOMAIN matched_postings :
                   matched_postings[n].payment_ref
                       # bank_transactions[i].reference_no

\* a posting of the fuzzy path for a payment smaller than its invoice
C9_FuzzyPostingUnderpaid ==
    \E i \in WithPosting :
        /\ returned[i].path = "fuzzy"
        /\ returned[i].posting.amount_difference < 0
        /\ returned[i].posting \in {matched_postings[n] : n \in DOMAIN matched_postings}

\* C10: whatever the order in which the transactions of a batch are taken
\* and however the calls of parallel units interleave, the invoice and
\* remittance lists stay as loaded and every call returns what
\* match_payment_to_invoice yields for its transaction alone on those lists.
C10_ResultsIndependentOfSchedule ==
    /\ invoices = loaded.invoices
    /\ remittances = loaded.remittances
    /\ \A i \in DOMAIN bank_transactions :
           returned[i] # Pending =>
               returned[i] = match_payment_to_invoice(bank_transactions[i],
                                                      loaded.remittances,
                                                      loaded.invoices)

\* the second transaction has its posting while another unit is still inside
\* the call for the first one
C10_OutOfOrderCompletion ==
    /\ Len(bank_transactions) >= 2
    /\ returned[2].kind = "posting"
    /\ returned[1] = Pending
    /\ \E w \in Workers : worker[w].tx = 1 /\ worker[w].pc = "after_fuzzy"

(***************************************************************************)
(* Properties of the matchers, on their direct calls.                      *)
(***************************************************************************)
\* the two scores of remittance k of rems against the transaction
RemittanceNameScore(transaction, rems, k) ==
    name_similarity(transaction.payer_name, rems[k].payer_name)
RemittanceAmountScore(transaction, rems, k) ==
    calculate_amount_similarity(transaction.amount, rems[k].payment_amount)

\* the positions of the remittances with name score > 0.6 and amount score > 0.8
Clearing(transaction, rems) ==
    {k \in DOMAIN rems :
        /\ RGt(RemittanceNameScore(transaction, rems, k), Rat(6, 10))
        /\ RGt(RemittanceAmountScore(transaction, rems, k), Rat(8, 10))}

\* C2: match_by_invoice_reference selects the remittance of lowest index
\* whose name similarity exceeds 0.6 and whose amount similarity exceeds 0.8,
\* never a later one, whatever the later ones score (so when the invoice that
\* remittance cites is missing the result is no match); and it returns no
\* match when no remittance clears both thresholds.
C2_FirstClearingRemittance ==
    call.fn = "match_by_invoice_reference" =>
        /\ call.result.kind = "match" =>
               /\ call.result.remittance \in Clearing(call.transaction, call.remittances)
               /\ \A k \in Clearing(call.transaction, call.remittances) :
                      call.result.remittance <= k
               /\ call.result.invoice \in DOMAIN call.invoices
               /\ call.invoices[call.result.invoice].invoice_id
                      = call.remittances[call.result.remittance].invoice_reference
        /\ Clearing(call.transaction, call.remittances) = {} =>
               call.result = NoMatch
        /\ (Clearing(call.transaction, call.remittances) # {}
                /\ call.result.kind # "match") =>
               /\ call.result = NoMatch
               /\ \A n \in DOMAIN call.invoices :
                      call.invoices[n].invoice_id
                          # call.remittances[
                                Least(Clearing(call.transaction, call.remittances))
                            ].invoice_reference

\* two remittances clear the thresholds, the second scores higher on both
\* counts, and the first is the one selected
C2_FirstSelectedThoughSecondScoresHigher ==
    /\ call.fn = "match_by_invoice_reference"
    /\ call.result.kind = "match"
    /\ call.result.remittance = 1
    /\ Clearing(call.transaction, call.remittances) = {1, 2}
    /\ RGt(RemittanceNameScore(call.transaction, call.remittances, 2),
           RemittanceNameScore(call.transaction, call.remittances, 1))
    /\ RGt(RemittanceAmountScore(call.transaction, call.remittances, 2),
           RemittanceAmountScore(call.transaction, call.remittances, 1))

\* 0.4 * name similarity + 0.6 * amount similarity of an invoice
Score(transaction, invoice) ==
    RAdd(RMul(Rat(4, 10),
              name_similarity(transaction.payer_name, invoice.client_name)),
         RMul(Rat(6, 10),
              calculate_amount_similarity(transaction.amount,
                                          invoice.invoice_amount)))

\* the positions of the invoices that are not excluded, are in the currency
\* of the transaction and score above 0.7
Acceptable(transaction, invs, excluded) ==
    {k \in DOMAIN invs :
        /\ invs[k].invoice_id \notin excluded
        /\ invs[k].currency = transaction.currency
        /\ RGt(Score(transaction, invs[k]), Rat(7, 10))}

\* C3: fuzzy_match never returns an invoice in another currency than the
\* transaction, an invoice whose id is excluded, or an invoice whose combined
\* score is not above 0.7; it returns no match exactly when no invoice that
\* is eligible scores above 0.7.
C3_FuzzyOnlyEligibleAboveMinimum ==
    call.fn = "fuzzy_match" =>
        /\ call.result.kind = "match" =>
               call.result.invoice
                   \in Acceptable(call.transaction, call.invoices,
                                  call.exclude_invoice_ids)
        /\ call.result = NoMatch <=>
               Acceptable(call.transaction, call.invoices,
                          call.exclude_invoice_ids) = {}

\* an invoice scores above 0.7 but is in another currency: no match
C3_CrossCurrencyCandidateSkipped ==
    /\ call.fn = "fuzzy_match"
    /\ call.result = NoMatch
    /\ \E k \in DOMAIN call.invoices :
           /\ call.invoices[k].currency # call.transaction.currency
           /\ call.invoices[k].invoice_id \notin call.exclude_invoice_ids
           /\ RGt(Score(call.transaction, call.invoices[k]), Rat(7, 10))

(***************************************************************************)
(* Properties of the scorers, on their direct calls.                       *)
(***************************************************************************)
\* C4: calculate_amount_similarity returns a value of the closed interval
\* [0, 1] for amounts of any sign.
C4_AmountSimilarityInUnitInterval ==
    call.fn = "calculate_amount_similarity" =>
        /\ ~RGt(RZero, call.result)
        /\ ~RGt(call.result, ROne)

\* max(0, 1 - 2*|x - y|/y) for y # 0, from the integers: (y - 2|x - y|) / y
\* where that is positive
ClaimedSimilarity(x, y) ==
    IF (y - 2 * Abs(x - y)) * y > 0 THEN Rat(y - 2 * Abs(x - y), y) ELSE RZero

\* |x - y|/y <= |u - v|/v for y # 0 and v # 0, cleared of denominators
RelativeDifferenceLeq(x, y, u, v) ==
    Abs(x - y) * y * v * v <= Abs(u - v) * v * y * y

C6_NoDivisionFault ==
    /\ call.fn = "calculate_amount_similarity" =>
           /\ ~IsFault(call.result)
           /\ (call.amount2 = 0 /\ call.amount1 # 0) => call.result = RZero
           /\ (call.amount2 = 0 /\ call.amount1 = 0) => call.result = ROne
    /\ call.fn \in {"match_by_invoice_reference", "fuzzy_match",
                    "match_payment_to_invoice"} =>
           call.result.kind # "raise"

\* a nonzero amount compared with zero gives the value 0.0
C6_ZeroDivisorGivesZero ==
    /\ call.fn = "calculate_amount_similarity"
    /\ call.amount2 = 0
    /\ call.amount1 # 0
    /\ call.result = RZero

\* name.lower().strip()
Trimmed(name) == Strip(Lower(name))

\* the positions in the list of the suffixes the name ends with
MatchingSuffixes(name) == {k \in DOMAIN Suffixes : EndsWith(name, Suffixes[k])}

\* C7 as the specification states it: normalize removes exactly one matching
\* suffix from the lowercase-trimmed name, none when none matches.
C7_OneSuffixStripped ==
    call.fn = "normalize" =>
        IF MatchingSuffixes(Trimmed(call.name)) = {}
        THEN call.result = Trimmed(call.name)
        ELSE \E k \in MatchingSuffixes(Trimmed(call.name)) :
                 call.result = RemoveSuffix(Trimmed(call.name), Suffixes[k])

\* strip, again and again, the first suffix the name ends with among those
\* that come later in the list than the one stripped before
RECURSIVE StripInListOrder(_, _)
StripInListOrder(name, last) ==
    IF {k \in MatchingSuffixes(name) : k > last} = {} THEN name
    ELSE StripInListOrder(
             RemoveSuffix(name,
                          Suffixes[Least({k \in MatchingSuffixes(name) : k > last})]),
             Least({k \in MatchingSuffixes(name) : k > last}))

CoLtd == <<" ","c","o"," ","l","t","d">>
HoldingsLtd == <<" ","h","o","l","d","i","n","g","s"," ","l","t","d">>
LtdCo == <<" ","l","t","d"," ","c","o">>

\* C7: normalize goes once through the suffix list in its order and strips
\* every suffix that the name, as the earlier strips left it, ends with: a
\* name ending in " co ltd" or " holdings ltd" loses both suffixes, a name
\* ending in " ltd co" loses " co" and keeps " ltd", and a name that ends
\* with no suffix of the list comes back lowercase and trimmed.
C7_StripsInListOrder ==
    call.fn = "normalize" =>
        /\ call.result = StripInListOrder(Trimmed(call.name), 0)
        /\ MatchingSuffixes(Trimmed(call.name)) = {} =>
               call.result = Trimmed(call.name)
        /\ EndsWith(Trimmed(call.name), CoLtd) =>
               Len(call.result) <= Len(Trimmed(call.name)) - Len(CoLtd)
        /\ EndsWith(Trimmed(call.name), HoldingsLtd) =>
               Len(call.result) <= Len(Trimmed(call.name)) - Len(HoldingsLtd)
        /\ EndsWith(Trimmed(call.name), LtdCo) =>
               call.result = SubSeq(Trimmed(call.name), 1,
                                    Len(Trimmed(call.name)) - 3)

\* "ACME CO LTD" comes back as "acme"
C7_BothStackedSuffixesStripped ==
    /\ call.fn = "normalize"
    /\ EndsWith(Trimmed(call.name), CoLtd)
    /\ call.result = <<"a","c","m","e">>

\* one normalized name is a non-empty substring of the other
NonEmptyContainment(norm1, norm2) ==
    \/ norm1 # <<>> /\ Contains(norm2, norm1)
    \/ norm2 # <<>> /\ Contains(norm1, norm2)

\* C8: calculate_name_similarity adds the 0.2 boost only when one normalized
\* name is a non-empty substring of the other; when exactly one normalized
\* name is empty the result is the plain sequence ratio, 0.
C8_BoostOnlyForNonEmptySubstring ==
    call.fn = "calculate_name_similarity" =>
        /\ call.result # SequenceRatio(normalize(call.name1), normalize(call.name2)) =>
               NonEmptyContainment(normalize(call.name1), normalize(call.name2))
        /\ (normalize(call.name1) = <<>>) # (normalize(call.name2) = <<>>) =>
               call.result = RZero

(***************************************************************************)
(* Properties of the two result lists of the batch loop.                   *)
(***************************************************************************)
\* the positions of the transactions whose call has returned, and of those
\* for which it returned None
Processed == {i \in DOMAIN bank_transactions : returned[i] # Pending}
WithoutPosting == {i \in DOMAIN bank_transactions : returned[i] = NoMatch}

\* the reference numbers of the transactions at the positions of S, in input
\* order
RECURSIVE ReferencesFrom(_, _)
ReferencesFrom(S, k) ==
    IF k > Len(bank_transactions) THEN <<>>
    ELSE IF k \in S
         THEN <<bank_transactions[k].reference_no>> \o ReferencesFrom(S, k + 1)
         ELSE ReferencesFrom(S, k + 1)

\* C11: every transaction the loop has processed added one entry to exactly
\* one list, matched_postings when its call returned a posting and
\* unmatched_payments when it returned None; so the two lengths always add up
\* to the number of transactions processed so far, to total_payments in the
\* response, and both lists are in the input order of the transactions.
C11_OneEntryPerProcessedTransaction ==
    /\ Processed = 1..Cardinality(Processed)
    /\ Len(matched_postings) = Cardinality(WithPosting)
    /\ Len(unmatched_payments) = Cardinality(WithoutPosting)
    /\ Len(matched_postings) + Len(unmatched_payments) = Cardinality(Processed)
    /\ [n \in DOMAIN matched_postings |-> matched_postings[n].payment_ref]
           = ReferencesFrom(WithPosting, 1)
    /\ [n \in DOMAIN unmatched_payments |-> unmatched_payments[n].payment_ref]
           = ReferencesFrom(WithoutPosting, 1)
    /\ response.kind = "ok" =>
           /\ response.total_payments = Len(bank_transactions)
           /\ response.matched_count = Len(matched_postings)
           /\ response.unmatched_count = Len(unmatched_payments)
           /\ response.matched_count + response.unmatched_count
                  = response.total_payments

\* a batch answered with postings and unmatched payments, the first
\* transaction being an unmatched one
C11_MixedBatchAnswered ==
    /\ response.kind = "ok"
    /\ response.matched_count >= 1
    /\ response.unmatched_count >= 1
    /\ returned[1] = NoMatch

(***************************************************************************)
(* Further properties of the matchers, on their direct calls.              *)
(***************************************************************************)
\* the invoice_reference of the first remittance that clears the thresholds
CitedByFirstClearing(transaction, rems) ==
    rems[Least(Clearing(transaction, rems))].invoice_reference

\* the positions of the invoices with that id
InvoicesWithId(invs, id) == {n \in DOMAIN invs : invs[n].invoice_id = id}

\* C12: once a remittance is selected, match_by_invoice_reference returns the
\* invoice of lowest index whose invoice_id equals its invoice_reference;
\* when no invoice has that id it returns no match at once, even when a
\* later remittance clears the thresholds too and cites an invoice of the
\* list.
C12_FirstInvoiceWithCitedId ==
    (/\ call.fn = "match_by_invoice_reference"
     /\ Clearing(call.transaction, call.remittances) # {}) =>
        IF InvoicesWithId(call.invoices,
                          CitedByFirstClearing(call.transaction,
                                               call.remittances)) = {}
        THEN call.result = NoMatch
        ELSE /\ call.result.kind = "match"
             /\ call.result.remittance
                    = Least(Clearing(call.transaction, call.remittances))
             /\ call.result.invoice
                    = Least(InvoicesWithId(call.invoices,
                                           CitedByFirstClearing(call.transaction,
                                                                call.remittances)))

\* both remittances clear the thresholds, the first cites an invoice that is
\* not in the list, the second one that is: no match
C12_NoResumeAfterMissingInvoice ==
    /\ call.fn = "match_by_invoice_reference"
    /\ Clearing(call.transaction, call.remittances) = {1, 2}
    /\ InvoicesWithId(call.invoices, call.remittances[1].invoice_reference) = {}
    /\ InvoicesWithId(call.invoices, call.remittances[2].invoice_reference) # {}
    /\ call.result = NoMatch

\* the positions of the invoices fuzzy_match does not skip
Eligible(transaction, invs, excluded) ==
    {k \in DOMAIN invs :
        /\ invs[k].invoice_id \notin excluded
        /\ invs[k].currency = transaction.currency}

\* C13: the invoice fuzzy_match returns has the highest combined score of
\* the eligible invoices (same currency, not excluded), and of the eligible
\* invoices with that score it is the one of lowest index.
C13_BestScoreFirstOnTies ==
    (call.fn = "fuzzy_match" /\ call.result.kind = "match") =>
        /\ call.result.invoice
               \in Eligible(call.transaction, call.invoices,
                            call.exclude_invoice_ids)
        /\ \A k \in Eligible(call.transaction, call.invoices,
                             call.exclude_invoice_ids) :
               /\ ~RGt(Score(call.transaction, call.invoices[k]),
                       Score(call.transaction,
                             call.invoices[call.result.invoice]))
               /\ Score(call.transaction, call.invoices[k])
                      = Score(call.transaction,
                              call.invoices[call.result.invoice])
                  => call.result.invoice <= k

\* two eligible invoices have the same, highest score and the first of them
\* is returned
C13_TieGoesToFirst ==
    /\ call.fn = "fuzzy_match"
    /\ call.result.kind = "match"
    /\ call.result.invoice = 1
    /\ 2 \in Eligible(call.transaction, call.invoices, call.exclude_invoice_ids)
    /\ Score(call.transaction, call.invoices[2])
           = Score(call.transaction, call.invoices[1])

\* floor(r * k) for a score r and a positive integer k
FloorTimes(r, k) == (r.num * k) \div r.den

\* the two scores of an invoice against the transaction
InvoiceNameScore(transaction, invoice) ==
    name_similarity(transaction.payer_name, invoice.client_name)
InvoiceAmountScore(transaction, invoice) ==
    calculate_amount_similarity(transaction.amount, invoice.invoice_amount)

\* 85 (or 80) + floor(amount_similarity * 10) + floor(name_similarity * 5)
PercentFrom(base, transaction, invoice) ==
    base + FloorTimes(InvoiceAmountScore(transaction, invoice), 10)
         + FloorTimes(InvoiceNameScore(transaction, invoice), 5)

\* C14: a reference match is classified by the similarities between the
\* transaction and the selected invoice, not the remittance: "Exact" with
\* confidence min(99, 85 + floor(amount_similarity*10) +
\* floor(name_similarity*5)) percent when the amount similarity exceeds 0.95,
\* else "Reference" with min(98, 80 + the same two terms) percent.
C14_ReferenceClassifiedByInvoice ==
    (call.fn = "match_by_invoice_reference" /\ call.result.kind = "match") =>
        IF RGt(InvoiceAmountScore(call.transaction,
                                  call.invoices[call.result.invoice]),
               Rat(95, 100))
        THEN /\ call.result.match_type = "Exact"
             /\ call.result.confidence
                    = Rat(IMin(99, PercentFrom(85, call.transaction,
                                               call.invoices[call.result.invoice])),
                          100)
        ELSE /\ call.result.match_type = "Reference"
             /\ call.result.confidence
                    = Rat(IMin(98, PercentFrom(80, call.transaction,
                                               call.invoices[call.result.invoice])),
                          100)

\* the remittance has exactly the amount of the transaction, the invoice it
\* cites has not: the match is a "Reference" one
C14_ReferenceThoughRemittanceIsExact ==
    /\ call.fn = "match_by_invoice_reference"
    /\ call.result.kind = "match"
    /\ call.result.match_type = "Reference"
    /\ RemittanceAmountScore(call.transaction, call.remittances,
                             call.result.remittance) = ROne
    /\ RemittanceNameScore(call.transaction, call.remittances,
                           call.result.remittance) = ROne
    /\ call.result.confidence = Rat(92, 100)

\* the match type the fuzzy rules give an invoice
TypeByRules(transaction, invoice) ==
    IF /\ RGt(InvoiceNameScore(transaction, invoice), Rat(8, 10))
       /\ RGt(InvoiceAmountScore(transaction, invoice), Rat(9, 10))
    THEN "Fuzzy (name)"
    ELSE IF RGt(InvoiceAmountScore(transaction, invoice), Rat(85, 100))
         THEN "Fuzzy (amount)"
         ELSE "Contextual"

\* C15: the match type and the confidence fuzzy_match returns are those of
\* the invoice it returns, not of a candidate replaced on the way: "Fuzzy
\* (name)" when its name similarity exceeds 0.8 and its amount similarity
\* 0.9, else "Fuzzy (amount)" when its amount similarity exceeds 0.85, else
\* "Contextual"; confidence min(98, floor(its combined score * 100)) percent.
C15_FuzzyClassifiedByReturnedInvoice ==
    (call.fn = "fuzzy_match" /\ call.result.kind = "match") =>
        /\ call.result.match_type
               = TypeByRules(call.transaction, call.invoices[call.result.invoice])
        /\ call.result.confidence
               = Rat(IMin(98, FloorTimes(Score(call.transaction,
                                               call.invoices[call.result.invoice]),
                                         100)),
                     100)

\* the first invoice was the best until the second, of another match type,
\* replaced it
C15_ReplacedCandidateOfOtherType ==
    /\ call.fn = "fuzzy_match"
    /\ call.result.kind = "match"
    /\ call.result.invoice = 2
    /\ 1 \in Acceptable(call.transaction, call.invoices, call.exclude_invoice_ids)
    /\ TypeByRules(call.transaction, call.invoices[1]) # call.result.match_type

(***************************************************************************)
(* Properties of the invoice pool during a batch.                          *)
(***************************************************************************)
\* C16: no invoice leaves the pool during a batch: the invoice list stays as
\* loaded, the invoice of every posting is still in it, and the fuzzy
\* strategy of a later transaction runs over the whole list, invoices
\* already posted included; so two postings of one batch can carry the same
\* matched_invoice.
C16_PostedInvoicesStayInPool ==
    /\ invoices = loaded.invoices
    /\ \A n \in DOMAIN matched_postings :
           InvoicesWithId(invoices, matched_postings[n].matched_invoice) # {}
    /\ \A w \in Workers :
           worker[w].pc = "after_fuzzy" =>
               worker[w].result
                   = fuzzy_match(bank_transactions[worker[w].tx], invoices, {})

\* a posting of the reference path, and after it a posting of the fuzzy path
\* for another transaction and the same invoice
C16_SameInvoicePostedTwice ==
    \E n, m \in DOMAIN matched_postings :
        /\ n < m
        /\ matched_postings[n].matched_invoice = matched_postings[m].matched_invoice
        /\ matched_postings[n].payment_ref # matched_postings[m].payment_ref
        /\ matched_postings[n].match_type \in {"Exact", "Reference"}
        /\ matched_postings[m].match_type
               \in {"Fuzzy (name)", "Fuzzy (amount)", "Contextual"}

(***************************************************************************)
(* Properties of the postings, on direct calls.                            *)
(***************************************************************************)
FuzzyTypes == {"Fuzzy (name)", "Fuzzy (amount)", "Contextual"}
ReferenceTypes == {"Exact", "Reference"}

\* the transaction in a currency no invoice has
InOtherCurrency(transaction) == [transaction EXCEPT !.currency = "GBP"]

\* C17: only the fuzzy path checks the currency: the result of
\* match_by_invoice_reference does not depend on the currency of the
\* transaction, so an "Exact" or "Reference" posting can be for an invoice in
\* another currency, while the invoice of every posting with a fuzzy match
\* type has the currency of the transaction.
C17_CurrencyCheckedOnFuzzyPathOnly ==
    /\ call.fn = "match_by_invoice_reference" =>
           call.result = match_by_invoice_reference(
                             InOtherCurrency(call.transaction),
                             call.remittances, call.invoices)
    /\ (/\ call.fn = "match_payment_to_invoice"
        /\ call.result.kind = "posting"
        /\ call.result.posting.match_type \in FuzzyTypes) =>
           call.invoices[call.result.invoice].currency
               = call.transaction.currency

\* a posting of the reference path for an invoice in another currency
C17_CrossCurrencyReferencePosting ==
    /\ call.fn = "match_payment_to_invoice"
    /\ call.result.kind = "posting"
    /\ call.result.posting.match_type \in ReferenceTypes
    /\ call.invoices[call.result.invoice].currency # call.transaction.currency

\* the score lies in [0, 1]
InUnitInterval(r) == ~RGt(RZero, r) /\ ~RGt(r, ROne)

\* the scores 0, 1/40, 2/40, ..., 1
ScoreGrid == {Rat(k, 40) : k \in 0..40}

\* the percentage of a reference match with these scores is in the range of
\* its type
ReferenceInRange(name_sim, amount_sim) ==
    IF ClassifyScores(name_sim, amount_sim).match_type = "Exact"
    THEN PercentOf(ClassifyScores(name_sim, amount_sim).confidence) \in 94..99
    ELSE PercentOf(ClassifyScores(name_sim, amount_sim).confidence) \in 80..94

\* the percentage of a fuzzy match on a single invoice with these scores
FuzzyInRange(name_sim, amount_sim) ==
    FuzzyResult(ScoreCandidate(1, name_sim, amount_sim, NoBest)).kind = "match" =>
        PercentOf(FuzzyResult(ScoreCandidate(1, name_sim, amount_sim,
                                             NoBest)).confidence) \in 70..98

\* when the two similarity scores of the invoice of a posting lie in [0, 1],
\* its confidence is a whole percentage within the range of its match type
ConfidenceRangeOfPosting ==
    (/\ call.fn = "match_payment_to_invoice"
     /\ call.result.kind = "posting"
     /\ InUnitInterval(InvoiceNameScore(call.transaction,
                                        call.invoices[call.result.invoice]))
     /\ InUnitInterval(InvoiceAmountScore(call.transaction,
                                          call.invoices[call.result.invoice]))) =>
        /\ call.result.posting.match_type \in ReferenceTypes \cup FuzzyTypes
        /\ call.result.posting.match_type = "Exact" =>
               call.result.posting.confidence \in 94..99
        /\ call.result.posting.match_type = "Reference" =>
               call.result.posting.confidence \in 80..94
        /\ call.result.posting.match_type \in FuzzyTypes =>
               call.result.posting.confidence \in 70..98
        /\ call.result.posting.confidence \in 70..99

\* the same ranges for every pair of scores of the grid, whatever the inputs
\* that produce them
ConfidenceRangeOnGrid ==
    call = NoCall =>
    \A name_sim, amount_sim \in ScoreGrid :
        /\ ReferenceInRange(name_sim, amount_sim)
        /\ FuzzyInRange(name_sim, amount_sim)

\* C18: when both similarity scores lie in [0, 1], the confidence of a
\* posting is a whole percentage within the range of its match type: 94 to
\* 99 for "Exact", 80 to 94 for "Reference" (80 being produced when both
\* scores are 0), 70 to 98 for the fuzzy types; so never below 70 or above
\* 99.  Stated on the postings of the calls and on the grid of scores.
C18_ConfidenceRangeByType == ConfidenceRangeOfPosting /\ ConfidenceRangeOnGrid

\* a "Reference" posting at 80 percent for an invoice that has neither the
\* name nor the amount of the transaction
C18_EightyPercentForUnrelatedInvoice ==
    /\ call.fn = "match_payment_to_invoice"
    /\ call.result.kind = "posting"
    /\ call.result.posting.match_type = "Reference"
    /\ call.result.posting.confidence = 80
    /\ InvoiceNameScore(call.transaction,
                        call.invoices[call.result.invoice]) = RZero
    /\ InvoiceAmountScore(call.transaction,
                          call.invoices[call.result.invoice]) = RZero

=============================================================================
